---- MODULE Spec2Model ----
(***************************************************************************)
(* Model of the warehouse order picker: app/service.py (OrderPicker) and   *)
(* the two Flask handlers of app/routes.py.                                *)
(*                                                                         *)
(* A Python dict is a function whose DOMAIN is its key set, a Python list  *)
(* a sequence.  An order held in the backlog is referred to by its backlog *)
(* position: that is the identity of the dict object the list holds.       *)
(***************************************************************************)
EXTENDS Integers, Sequences, FiniteSets, TLC

VARIABLES
    orders,         \* self.orders: the backlog, a list of order dicts
    inventory,      \* self.inventory: dict item -> quantity
    pre_orders,     \* history: self.orders as it was when the last call began
    pre_inventory,  \* history: self.inventory as it was when the last call began
    last,           \* history: the last OrderPicker call and how it ended
    response,       \* history: the HTTP response of the last handler run
    request,        \* history: what request.get_json() gave the last add_order
    threads         \* per caller thread: its position in next_order and its locals

vars == <<orders, inventory, pre_orders, pre_inventory, last, response, request, threads>>

----------------------------------------------------------------------------
(* Bounds of the exploration. *)

\* longest backlog explored
MaxOrders == 2
\* largest stock of the first inventory item, at construction and after a
\* restock by an order of negative quantity
MaxStock == 2

----------------------------------------------------------------------------
(* Inputs. *)

InvItems == {"apple", "bread"}

\* the inventory dict given to the constructor
InitialInventory == [i \in InvItems |-> IF i = "apple" THEN MaxStock ELSE 1]

Keys == {"item", "quantity", "category", "timestamp"}

Order(i, q, c, t) == [item |-> i, quantity |-> q, category |-> c, timestamp |-> t]

\* Candidates carrying all four keys.  "kiwi" is no inventory key,
\* "Perishable" is no key of CATEGORY_PRIORITY, quantities reach from
\* negative to more than the stock, timestamps are comparable values.
FullOrders ==
    {Order("apple", q, c, t) : q \in {1, 2}, c \in {"perishable", "non_perishable"}, t \in {1, 2}}
    \cup {Order("bread", 1, "Perishable", t) : t \in {1, 2}}
    \cup {Order("kiwi", q, "perishable", 1) : q \in {0, 1}}
    \cup {Order("apple", -1, "non_perishable", 1), Order("apple", 0, "perishable", 2)}

SampleValue(k) ==
    CASE k = "item" -> "apple"
      [] k = "quantity" -> 1
      [] k = "category" -> "perishable"
      [] OTHER -> 1

\* Candidates lacking at least one of the four keys (the empty dict included).
PartialOrders == {[k \in S |-> SampleValue(k)] : S \in (SUBSET Keys) \ {Keys}}

Candidates == FullOrders \cup PartialOrders

\* the empty dict
EmptyDict == <<>>

----------------------------------------------------------------------------
(* Python helpers. *)

\* dict.get(k, default)
DictGet(d, k, default) == IF k \in DOMAIN d THEN d[k] ELSE default

\* sep.join(seq)
RECURSIVE Join(_, _)
Join(seq, sep) ==
    IF seq = <<>> THEN ""
    ELSE IF Len(seq) = 1 THEN seq[1]
    ELSE seq[1] \o sep \o Join(Tail(seq), sep)

\* comparison of two 2-tuples, as Python compares tuples
TupleLess(a, b) == a[1] < b[1] \/ (a[1] = b[1] /\ a[2] < b[2])

----------------------------------------------------------------------------
(* OrderPicker. *)

CATEGORY_PRIORITY == [perishable |-> 0, non_perishable |-> 1]

required_field == <<"item", "quantity", "category", "timestamp">>

\* variant: the absent keys collected in the reverse of the field order
missing_Reversed(order) ==
    SelectSeq(<<"timestamp", "category", "quantity", "item">>,
              LAMBDA f : f \notin DOMAIN order)

\* [f for f in required_field if f not in order]
missing(order) == SelectSeq(required_field, LAMBDA f : f \notin DOMAIN order)

\* f"Missing field:{','.join(missing)}"
ErrorMessage(m) == "Missing field:" \o Join(m, ",")

NoCall == [op |-> "none", exc |-> "none", msg |-> "", arg |-> EmptyDict, ret |-> 0]

\* variant: the order is appended before the keys are checked
SubmitOutcome_AppendFirst(os, order) ==
    LET m == missing(order) IN
    IF m # <<>>
    THEN [orders |-> Append(os, order), exc |-> "ValueError", msg |-> ErrorMessage(m)]
    ELSE [orders |-> Append(os, order), exc |-> "none", msg |-> ""]

\* variant: the order is inserted at the head of the backlog
SubmitOutcome_Prepend(os, order) ==
    LET m == missing(order) IN
    IF m # <<>>
    THEN [orders |-> os, exc |-> "ValueError", msg |-> ErrorMessage(m)]
    ELSE [orders |-> <<order>> \o os, exc |-> "none", msg |-> ""]

\* OrderPicker.submit_order(order) on backlog os: the backlog it leaves and
\* the exception it raises
SubmitOutcome(os, order) ==
    LET m == missing(order) IN
    IF m # <<>>
    THEN [orders |-> os, exc |-> "ValueError", msg |-> ErrorMessage(m)]
    ELSE [orders |-> Append(os, order), exc |-> "none", msg |-> ""]

\* variant: no stock check at all
Eligible_Unchecked(o, inv) == TRUE

\* variant: the comparison of the filter is turned round
Eligible_Reversed(o, inv) == DictGet(inv, o["item"], 0) <= o["quantity"]

\* the filter of next_order
Eligible(o, inv) == DictGet(inv, o["item"], 0) >= o["quantity"]

\* available_order, as backlog positions
available_order(os, inv) ==
    SelectSeq([i \in 1..Len(os) |-> i], LAMBDA i : Eligible(os[i], inv))

\* variant: a category that is no key of CATEGORY_PRIORITY ranks last
SortKey_UnknownLast(o) == <<DictGet(CATEGORY_PRIORITY, o["category"], 2), o["timestamp"]>>

\* variant: the timestamp is the first component of the key
SortKey_TimestampFirst(o) ==
    <<o["timestamp"], DictGet(CATEGORY_PRIORITY, o["category"], 0)>>

\* the key of sorted()
SortKey(o) == <<DictGet(CATEGORY_PRIORITY, o["category"], 0), o["timestamp"]>>

\* variant: x goes in front of the elements whose key equals its own
InsertStable_Unstable(os, s, x) ==
    LET p == Cardinality({j \in 1..Len(s) :
                            TupleLess(SortKey(os[s[j]]), SortKey(os[x]))})
    IN  SubSeq(s, 1, p) \o <<x>> \o SubSeq(s, p + 1, Len(s))

\* one step of a stable sort: x goes behind every element of the sorted s
\* whose key is not greater than its own
InsertStable(os, s, x) ==
    LET p == Cardinality({j \in 1..Len(s) :
                            ~TupleLess(SortKey(os[x]), SortKey(os[s[j]]))})
    IN  SubSeq(s, 1, p) \o <<x>> \o SubSeq(s, p + 1, Len(s))

\* sorted(available_order, key=...), as backlog positions; the sorted front
\* is bound to s as a value, so that it is computed once
RECURSIVE sorted_order(_, _)
sorted_order(os, refs) ==
    IF refs = <<>> THEN <<>>
    ELSE CHOOSE r \in {InsertStable(os, s, refs[Len(refs)]) :
                         s \in {sorted_order(os, SubSeq(refs, 1, Len(refs) - 1))}} : TRUE

\* variant: the difference is computed and not stored
Debit_NoWrite(inv, o) == [inv EXCEPT ![o["item"]] = @]

\* variant: one unit is debited whatever the quantity
Debit_OneUnit(inv, o) == [inv EXCEPT ![o["item"]] = @ - 1]

\* self.inventory[next_order['item']] -= next_order['quantity']
Debit(inv, o) == [inv EXCEPT ![o["item"]] = @ - o["quantity"]]

\* variant: the order picked is taken out of the backlog
NextOutcome_RemovesPicked(os, inv) ==
    LET so == sorted_order(os, available_order(os, inv)) IN
    IF so = <<>>
    THEN [orders |-> os, inventory |-> inv, exc |-> "IndexError", ret |-> 0]
    ELSE IF os[so[1]]["item"] \notin DOMAIN inv
    THEN [orders |-> os, inventory |-> inv, exc |-> "KeyError", ret |-> 0]
    ELSE [orders |-> SubSeq(os, 1, so[1] - 1) \o SubSeq(os, so[1] + 1, Len(os)),
          inventory |-> Debit(inv, os[so[1]]), exc |-> "none", ret |-> so[1]]

\* o['item'] or o['quantity'] of the filter raises KeyError on a stored order
\* that lacks the key
FilterFails(os) ==
    \E i \in 1..Len(os) : ~({"item", "quantity"} \subseteq DOMAIN os[i])

\* o['category'] or o['timestamp'] of the sort key raises KeyError on an
\* available order that lacks the key
KeyFails(os, refs) ==
    \E k \in 1..Len(refs) : ~({"category", "timestamp"} \subseteq DOMAIN os[refs[k]])

\* variant: the first available order is debited before the list is sorted
NextOutcome_DebitFirst(os, inv) ==
    IF FilterFails(os)
    THEN [orders |-> os, inventory |-> inv, exc |-> "KeyError", ret |-> 0]
    ELSE LET av == available_order(os, inv) IN
    IF av = <<>>
    THEN [orders |-> os, inventory |-> inv, exc |-> "IndexError", ret |-> 0]
    ELSE IF os[av[1]]["item"] \notin DOMAIN inv
    THEN [orders |-> os, inventory |-> inv, exc |-> "KeyError", ret |-> 0]
    ELSE IF KeyFails(os, av)
    THEN [orders |-> os, inventory |-> Debit(inv, os[av[1]]), exc |-> "KeyError", ret |-> 0]
    ELSE LET so == sorted_order(os, av) IN
         [orders |-> os, inventory |-> Debit(inv, os[so[1]]), exc |-> "none", ret |-> so[1]]

\* OrderPicker.next_order() on backlog os and inventory inv: the backlog and
\* the inventory it leaves, the exception it raises, the backlog position of
\* the order returned
NextOutcome(os, inv) ==
    IF FilterFails(os) \/ KeyFails(os, available_order(os, inv))
    THEN [orders |-> os, inventory |-> inv, exc |-> "KeyError", ret |-> 0]
    ELSE LET so == sorted_order(os, available_order(os, inv)) IN
    IF so = <<>>
    THEN [orders |-> os, inventory |-> inv, exc |-> "IndexError", ret |-> 0]
    ELSE IF os[so[1]]["item"] \notin DOMAIN inv
    THEN [orders |-> os, inventory |-> inv, exc |-> "KeyError", ret |-> 0]
    ELSE [orders |-> os, inventory |-> Debit(inv, os[so[1]]), exc |-> "none", ret |-> so[1]]

\* an HTTP response: the route that answered, the status, and the JSON body
\* as its single key (kind) with its value (a text or an order)
Response(route, status, kind, text, order) ==
    [route |-> route, status |-> status, kind |-> kind, text |-> text, order |-> order]

NoResponse == Response("none", 0, "none", "", EmptyDict)

\* request.get_json() returned a value of Python type typ
Returned(typ, value) == [exc |-> "none", typ |-> typ, value |-> value]

\* request.get_json() raised
Raised(e) == [exc |-> e, typ |-> "NoneType", value |-> EmptyDict]

NoRequest == [exc |-> "none", typ |-> "none", value |-> EmptyDict]

\* Exploration stops at MaxOrders backlog entries and MaxStock units of stock.
WithinBounds(os, inv) ==
    /\ Len(os) <= MaxOrders
    /\ \A i \in DOMAIN inv : inv[i] <= MaxStock

\* a call of OrderPicker.submit_order
submit_order(order) ==
    LET out == SubmitOutcome(orders, order) IN
    /\ WithinBounds(out.orders, inventory)
    /\ pre_orders' = orders
    /\ pre_inventory' = inventory
    /\ orders' = out.orders
    /\ inventory' = inventory
    /\ last' = [op |-> "submit_order", exc |-> out.exc, msg |-> out.msg,
                arg |-> order, ret |-> 0]
    /\ response' = NoResponse
    /\ request' = NoRequest
    /\ threads' = threads

\* a call of OrderPicker.next_order
next_order ==
    LET out == NextOutcome(orders, inventory) IN
    /\ WithinBounds(out.orders, out.inventory)
    /\ pre_orders' = orders
    /\ pre_inventory' = inventory
    /\ orders' = out.orders
    /\ inventory' = out.inventory
    /\ last' = [op |-> "next_order", exc |-> out.exc, msg |-> "",
                arg |-> EmptyDict, ret |-> out.ret]
    /\ response' = NoResponse
    /\ request' = NoRequest
    /\ threads' = threads

----------------------------------------------------------------------------
(* The Flask handlers of routes.py. *)

\* Python truth value of a dict
Truthy(d) == DOMAIN d # {}

\* the response of add_order once submit_order has run
AddOrderResponse(out) ==
    IF out.exc = "ValueError"
    THEN Response("add_order", 400, "error", out.msg, EmptyDict)
    ELSE IF out.exc # "none"
    THEN Response("add_order", 500, "error",
                  "An internal server error occurred.Please try again later", EmptyDict)
    ELSE Response("add_order", 201, "message", "order added successfully", EmptyDict)

\* request.get_json() on a request that carries no JSON document.  The call
\* is Flask's; it stands inside the try of add_order and either returns None
\* or raises (BadRequest on a body that does not parse, UnsupportedMediaType
\* on a request without a JSON content type), which except Exception catches.
GetJsonWithoutBody == {Returned("NoneType", EmptyDict), Raised("BadRequest")}

\* a JSON number as body
JsonNumber == Returned("int", 5)

\* `not data`
Falsy(got) ==
    CASE got.typ = "dict" -> ~Truthy(got.value)
      [] got.typ = "int" -> got.value = 0
      [] OTHER -> TRUE

\* scheduled_manager_order.submit_order(data): `f not in order` raises
\* TypeError when data is no container
SubmitCall(os, got) ==
    IF got.typ = "dict"
    THEN SubmitOutcome(os, got.value)
    ELSE [orders |-> os, exc |-> "TypeError",
          msg |-> "argument of type 'int' is not iterable"]

\* POST /add_order, got being what request.get_json() gives
add_order(got) ==
    /\ pre_orders' = orders
    /\ pre_inventory' = inventory
    /\ inventory' = inventory
    /\ request' = got
    /\ threads' = threads
    /\ IF got.exc # "none"
       THEN /\ orders' = orders
            /\ last' = NoCall
            /\ response' = Response("add_order", 500, "error",
                                    "An internal server error occurred.Please try again later",
                                    EmptyDict)
       ELSE IF Falsy(got)
       THEN /\ orders' = orders
            /\ last' = NoCall
            /\ response' = Response("add_order", 400, "error",
                                    "Request Body must contain JSON data", EmptyDict)
       ELSE LET out == SubmitCall(orders, got) IN
            /\ WithinBounds(out.orders, inventory)
            /\ orders' = out.orders
            /\ last' = [op |-> "submit_order", exc |-> out.exc, msg |-> out.msg,
                        arg |-> IF got.typ = "dict" THEN got.value ELSE EmptyDict,
                        ret |-> 0]
            /\ response' = AddOrderResponse(out)

\* the response of the next_order handler once OrderPicker.next_order has run
NextOrderResponse(out) ==
    IF out.exc # "none"
    THEN Response("next_order", 500, "error",
                  "An internal server error occurred.Please try again later ", EmptyDict)
    ELSE IF Truthy(out.orders[out.ret])
    THEN Response("next_order", 200, "order_to_fulfill", "", out.orders[out.ret])
    ELSE Response("next_order", 200, "message",
                  "No orders available or stock insufficient", EmptyDict)

\* GET /next_order
route_next_order ==
    LET out == NextOutcome(orders, inventory) IN
    /\ WithinBounds(out.orders, out.inventory)
    /\ pre_orders' = orders
    /\ pre_inventory' = inventory
    /\ orders' = out.orders
    /\ inventory' = out.inventory
    /\ last' = [op |-> "next_order", exc |-> out.exc, msg |-> "",
                arg |-> EmptyDict, ret |-> out.ret]
    /\ response' = NextOrderResponse(out)
    /\ request' = NoRequest
    /\ threads' = threads

----------------------------------------------------------------------------
(* Callers on several threads.  OrderPicker holds no lock and routes.py     *)
(* shares the one scheduled_manager_order among all requests, so a thread   *)
(* may be switched out between the statements of next_order, and between    *)
(* the read and the write of the `-=` of its debit.                         *)

Threads == {"t1", "t2"}

\* a thread outside next_order
Idle == [pc |-> "idle", sel |-> 0, seen |-> EmptyDict, len |-> 0, val |-> 0]

\* submit_order on thread t: the key check reads only the argument and
\* list.append is one step
conc_submit(t, order) ==
    /\ threads[t].pc = "idle"
    /\ submit_order(order)

\* thread t runs the filter, the sort and sorted_order[0] of next_order; sel
\* is the order chosen, seen and len are what the backlog and the inventory
\* were when it was chosen
conc_select(t) ==
    LET so == sorted_order(orders, available_order(orders, inventory)) IN
    /\ threads[t].pc = "idle"
    /\ UNCHANGED <<orders, inventory, response, request>>
    /\ IF so = <<>>
       THEN /\ pre_orders' = orders
            /\ pre_inventory' = inventory
            /\ last' = [op |-> "next_order", exc |-> "IndexError", msg |-> "",
                        arg |-> EmptyDict, ret |-> 0]
            /\ threads' = threads
       ELSE /\ threads' = [threads EXCEPT ![t] =
                              [pc |-> "load", sel |-> so[1], seen |-> inventory,
                               len |-> Len(orders), val |-> 0]]
            /\ UNCHANGED <<pre_orders, pre_inventory, last>>

\* thread t reads self.inventory[next_order['item']]
conc_load(t) ==
    LET o == orders[threads[t].sel] IN
    /\ threads[t].pc = "load"
    /\ UNCHANGED <<orders, inventory, response, request>>
    /\ IF o["item"] \notin DOMAIN inventory
       THEN /\ pre_orders' = SubSeq(orders, 1, threads[t].len)
            /\ pre_inventory' = threads[t].seen
            /\ last' = [op |-> "next_order", exc |-> "KeyError", msg |-> "",
                        arg |-> EmptyDict, ret |-> 0]
            /\ threads' = [threads EXCEPT ![t] = Idle]
       ELSE /\ threads' = [threads EXCEPT ![t].pc = "store",
                                          ![t].val = inventory[o["item"]]]
            /\ UNCHANGED <<pre_orders, pre_inventory, last>>

\* thread t writes the difference back and returns the order
conc_store(t) ==
    LET o == orders[threads[t].sel]
        inv == [inventory EXCEPT ![o["item"]] = threads[t].val - o["quantity"]]
    IN
    /\ threads[t].pc = "store"
    /\ WithinBounds(orders, inv)
    /\ inventory' = inv
    /\ pre_orders' = SubSeq(orders, 1, threads[t].len)
    /\ pre_inventory' = threads[t].seen
    /\ last' = [op |-> "next_order", exc |-> "none", msg |-> "",
                arg |-> EmptyDict, ret |-> threads[t].sel]
    /\ threads' = [threads EXCEPT ![t] = Idle]
    /\ UNCHANGED <<orders, response, request>>

----------------------------------------------------------------------------
(* Specifications. *)

\* Flask module state of routes.py: an empty backlog and the inventory dict
Init ==
    /\ orders = <<>>
    /\ inventory = InitialInventory
    /\ pre_orders = <<>>
    /\ pre_inventory = InitialInventory
    /\ last = NoCall
    /\ response = NoResponse
    /\ request = NoRequest
    /\ threads = [t \in Threads |-> Idle]

Submit == \E order \in Candidates : submit_order(order)

Next == Submit \/ next_order

\* callers of the OrderPicker object
Spec == Init /\ [][Next]_vars

AddOrder ==
    \/ \E data \in Candidates : add_order(Returned("dict", data))
    \/ add_order(JsonNumber)
    \/ \E got \in GetJsonWithoutBody : add_order(got)

HttpNext == AddOrder \/ route_next_order

\* clients of the HTTP interface
HttpSpec == Init /\ [][HttpNext]_vars

\* accepted orders of quantity >= 1
PositiveOrders == {o \in FullOrders : o["quantity"] >= 1}

\* orders of quantity >= 1 are submitted until next_order is first called,
\* none after
DrainSubmit ==
    /\ last.op # "next_order"
    /\ \E order \in PositiveOrders : submit_order(order)

DrainNext == DrainSubmit \/ next_order

\* a caller that fills the backlog, then submits nothing and keeps calling
\* next_order
DrainSpec == Init /\ [][DrainNext]_vars /\ WF_vars(next_order)

\* stored orders that lack one of the four keys: the constructor checks only
\* that orders is a list
MalformedOrders == {o \in PartialOrders : Cardinality(DOMAIN o) = 3}

\* an OrderPicker constructed on a backlog holding one such order, with the
\* first inventory item in stock or out of stock
FaultInit ==
    /\ orders \in {<<o>> : o \in MalformedOrders}
    /\ inventory \in {InitialInventory, [i \in InvItems |-> 0]}
    /\ pre_orders = orders
    /\ pre_inventory = inventory
    /\ last = NoCall
    /\ response = NoResponse
    /\ request = NoRequest
    /\ threads = [t \in Threads |-> Idle]

FaultSubmit == \E order \in FullOrders : submit_order(order)

FaultNext == FaultSubmit \/ next_order

\* callers of an OrderPicker whose initial backlog holds a malformed order
FaultSpec == FaultInit /\ [][FaultNext]_vars

ConcSubmit == \E t \in Threads : \E order \in FullOrders : conc_submit(t, order)

ConcSelect == \E t \in Threads : conc_select(t)

ConcLoad == \E t \in Threads : conc_load(t)

ConcStore == \E t \in Threads : conc_store(t)

ConcNext == ConcSubmit \/ ConcSelect \/ ConcLoad \/ ConcStore

\* callers of the OrderPicker object on two threads
ConcSpec == Init /\ [][ConcNext]_vars

----------------------------------------------------------------------------
(* What the claims speak of. *)

\* the last call was next_order and it returned an order
NextReturned == last.op = "next_order" /\ last.exc = "none"

\* the order the last next_order call returned
Picked == pre_orders[last.ret]

\* the stock of an item in an inventory, an absent item counting as 0
StockOf(inv, item) == IF item \in DOMAIN inv THEN inv[item] ELSE 0

\* backlog positions whose order had sufficient stock when the last call began
EligibleBefore ==
    {i \in 1..Len(pre_orders) :
        pre_orders[i].quantity <= StockOf(pre_inventory, pre_orders[i].item)}

\* the priority of a category: perishable 0, non_perishable 1, any other 0
CategoryPriority(c) == IF c = "non_perishable" THEN 1 ELSE 0

\* the place of a required key in the order item, quantity, category, timestamp
FieldRank(k) ==
    CASE k = "item" -> 1
      [] k = "quantity" -> 2
      [] k = "category" -> 3
      [] k = "timestamp" -> 4

\* the required keys the argument of the last submit_order call lacks
Absent == Keys \ DOMAIN last.arg

----------------------------------------------------------------------------
(* The claims. *)

\* C1: an order returned by next_order has a quantity no greater than the
\* stock of its item as it was immediately before the call, an item absent
\* from the inventory counting as 0.
C1_PickWithinStock ==
    NextReturned => Picked.quantity <= StockOf(pre_inventory, Picked.item)

\* a pick was made while another backlog order lacked stock
C1_Witness ==
    /\ NextReturned
    /\ Picked.quantity >= 1
    /\ \E i \in 1..Len(pre_orders) : i \notin EligibleBefore

\* C2: next_order on an empty backlog, or when no backlog order has
\* sufficient stock, returns the "no eligible order" signal without raising
\* and leaves every inventory entry unchanged.
C2_NoEligibleSignal ==
    (last.op = "next_order" /\ EligibleBefore = {}) =>
        (last.exc = "none" /\ last.ret = 0 /\ inventory = pre_inventory)

\* C3: after next_order returned order O, the stock of O.item is its previous
\* value minus O.quantity, every other entry is unchanged and so is the set
\* of inventory keys.
C3_DebitExact ==
    NextReturned =>
        /\ DOMAIN inventory = DOMAIN pre_inventory
        /\ Picked.item \in DOMAIN inventory
        /\ inventory[Picked.item] = pre_inventory[Picked.item] - Picked.quantity
        /\ \A i \in DOMAIN inventory \ {Picked.item} : inventory[i] = pre_inventory[i]

\* a pick of two units emptied the stock of its item
C3_Witness ==
    /\ NextReturned
    /\ Picked.quantity = 2
    /\ inventory[Picked.item] = 0

\* C4: when orders A and B are both eligible and A's category priority is
\* lower than B's, next_order does not return B, whatever the timestamps.
C4_PriorityDominates ==
    NextReturned =>
        \A a \in EligibleBefore :
            ~(CategoryPriority(pre_orders[a].category) < CategoryPriority(Picked.category))

\* a perishable order was picked over an eligible non_perishable order of
\* earlier timestamp
C4_Witness ==
    /\ NextReturned
    /\ Picked.category = "perishable"
    /\ \E b \in EligibleBefore :
          /\ pre_orders[b].category = "non_perishable"
          /\ pre_orders[b].timestamp < Picked.timestamp

\* C5: among eligible orders of equal category priority next_order returns
\* the one of smallest timestamp, and among those equal in timestamp too the
\* one at the earliest backlog position.
C5_TimestampThenPosition ==
    NextReturned =>
        \A a \in EligibleBefore :
            CategoryPriority(pre_orders[a].category) = CategoryPriority(Picked.category) =>
                /\ Picked.timestamp <= pre_orders[a].timestamp
                /\ pre_orders[a].timestamp = Picked.timestamp => last.ret <= a

\* the order picked tied in priority and timestamp with a different eligible
\* order submitted after it
C5_Witness ==
    /\ NextReturned
    /\ \E a \in EligibleBefore :
          /\ a > last.ret
          /\ CategoryPriority(pre_orders[a].category) = CategoryPriority(Picked.category)
          /\ pre_orders[a].timestamp = Picked.timestamp
          /\ pre_orders[a] # Picked

\* C6: submit_order with a candidate lacking one or more of the four
\* required keys raises the validation failure and leaves backlog and
\* inventory unchanged.
C6_RejectLeavesState ==
    (last.op = "submit_order" /\ Absent # {}) =>
        /\ last.exc = "ValueError"
        /\ orders = pre_orders
        /\ inventory = pre_inventory

\* a candidate lacking keys was rejected on a backlog that holds an order
C6_Witness ==
    /\ last.op = "submit_order"
    /\ Absent # {}
    /\ last.exc = "ValueError"
    /\ Len(orders) > 0

\* C7: the validation error of submit_order names exactly the absent
\* required keys, comma-joined, in the order item, quantity, category,
\* timestamp.
C7_MessageNamesAbsentKeys ==
    (last.op = "submit_order" /\ last.exc = "ValueError") =>
        /\ Absent # {}
        /\ \E s \in [1..Cardinality(Absent) -> Absent] :
              /\ \A i, j \in DOMAIN s : i < j => FieldRank(s[i]) < FieldRank(s[j])
              /\ last.msg = "Missing field:" \o Join(s, ",")

\* a candidate lacking quantity and timestamp was rejected with both named
C7_Witness ==
    /\ last.op = "submit_order"
    /\ Absent = {"quantity", "timestamp"}
    /\ last.msg = "Missing field:quantity,timestamp"

\* C8: submit_order with all four keys present appends the candidate,
\* unmodified, as the last backlog element; earlier entries and the inventory
\* are unchanged, and neither quantity sign nor item existence rejects it.
C8_AppendOnly ==
    (last.op = "submit_order" /\ Absent = {}) =>
        /\ last.exc = "none"
        /\ orders = Append(pre_orders, last.arg)
        /\ inventory = pre_inventory

\* an order of quantity 0 for an item that is no inventory key was appended
\* behind an earlier order
C8_Witness ==
    /\ last.op = "submit_order"
    /\ Absent = {}
    /\ last.arg.quantity <= 0
    /\ last.arg.item \notin DOMAIN inventory
    /\ Len(pre_orders) >= 1
    /\ orders[Len(orders)] = last.arg

\* C9: next_order never mutates the backlog, whether it returns an order or
\* not; the order picked is still at its position.
C9_BacklogUntouched ==
    last.op = "next_order" => orders = pre_orders

\* an order was picked from a backlog of two and is still at its position
C9_Witness ==
    /\ NextReturned
    /\ Len(pre_orders) = 2
    /\ Picked.quantity >= 1
    /\ orders[last.ret] = Picked

\* C10: GET /next_order answers 200 with the picked order under
\* order_to_fulfill when an eligible order exists, and 200 with the message
\* "No orders available or stock insufficient" when none does; 500 is never
\* the answer to the no-eligible-order case.
C10_NoEligibleIs200 ==
    response.route = "next_order" =>
        /\ EligibleBefore = {} =>
              /\ response.status = 200
              /\ response.kind = "message"
              /\ response.text = "No orders available or stock insufficient"
        /\ (EligibleBefore # {} /\ last.exc = "none") =>
              /\ response.status = 200
              /\ response.kind = "order_to_fulfill"
              /\ response.order = Picked

\* C11: POST /add_order answers 201 exactly when the order was appended; a
\* JSON body lacking a required field yields 400 with the validation message
\* and an unchanged backlog; a missing or empty body yields 400 without
\* submit_order being invoked; any other failure yields 500 with the backlog
\* unchanged.
C11_AddOrderStatus ==
    response.route = "add_order" =>
        /\ (response.status = 201) <=> (Len(orders) = Len(pre_orders) + 1)
        /\ response.status = 201 => orders = Append(pre_orders, request.value)
        /\ (request.typ = "dict" /\ Truthy(request.value) /\ Keys \ DOMAIN request.value # {}) =>
              /\ response.status = 400
              /\ response.kind = "error"
              /\ response.text = last.msg
              /\ last.exc = "ValueError"
              /\ orders = pre_orders
        /\ (request.exc # "none" \/ Falsy(request)) =>
              /\ response.status = 400
              /\ last.op = "none"
              /\ orders = pre_orders
        /\ (last.op = "submit_order" /\ last.exc \notin {"none", "ValueError"}) =>
              /\ response.status = 500
              /\ orders = pre_orders

\* C12: selection and debit of next_order are atomic with respect to every
\* other operation: while a thread has chosen an order and not yet debited
\* it, the backlog and the inventory are what they were when it chose and no
\* other thread is inside next_order; a call that returns has debited the
\* inventory it chose on, once; and overlapping calls never debit more of an
\* item than was in stock.
C12_AtomicPick ==
    /\ \A t \in Threads :
          threads[t].pc # "idle" =>
              /\ inventory = threads[t].seen
              /\ Len(orders) = threads[t].len
              /\ \A u \in Threads \ {t} : threads[u].pc = "idle"
    /\ NextReturned =>
          inventory = [pre_inventory EXCEPT ![Picked.item] = @ - Picked.quantity]
    /\ \A i \in DOMAIN inventory : inventory[i] >= 0

\* C13: under serialized calls, from an inventory whose entries are all >= 0,
\* every inventory entry stays >= 0, whatever orders were accepted (orders
\* of quantity zero or negative included).
C13_StockNeverNegative == \A i \in DOMAIN inventory : inventory[i] >= 0

\* an order of negative quantity was picked and restocked its item
C13_Witness ==
    /\ NextReturned
    /\ Picked.quantity < 0
    /\ inventory[Picked.item] = pre_inventory[Picked.item] + 1
    /\ \E i \in 1..Len(orders) : orders[i].quantity > 0

\* C14: an order whose item is no inventory key counts as having zero stock
\* and never causes an error: when some backlog order is eligible (one of
\* quantity <= 0 for an absent item is), next_order does not fail, and the
\* inventory entry of the order it selects exists when the debit is applied.
C14_AbsentItemNoError ==
    (last.op = "next_order" /\ EligibleBefore # {}) =>
        /\ last.exc = "none"
        /\ Picked.item \in DOMAIN pre_inventory

\* the next_order call now due: the backlog position at the head of the
\* ranking of the orders that had sufficient stock when the last call began
BestEligibleBefore ==
    CHOOSE b \in EligibleBefore :
        \A a \in EligibleBefore :
            \/ CategoryPriority(pre_orders[b].category) < CategoryPriority(pre_orders[a].category)
            \/ /\ CategoryPriority(pre_orders[b].category) = CategoryPriority(pre_orders[a].category)
               /\ \/ pre_orders[b].timestamp < pre_orders[a].timestamp
                  \/ pre_orders[b].timestamp = pre_orders[a].timestamp /\ b <= a

\* C15: next_order returns an order if and only if the eligible subset is
\* non-empty, and the order it returns is the best-ranked of the eligible
\* ones: an order without stock never blocks the pick.
C15_PickIffEligible ==
    last.op = "next_order" =>
        /\ (last.exc = "none") <=> (EligibleBefore # {})
        /\ EligibleBefore # {} => last.ret = BestEligibleBefore

\* a category other than perishable and non_perishable
UnknownCategory(c) == c \notin {"perishable", "non_perishable"}

\* C16: a category other than perishable and non_perishable has priority 0:
\* an eligible order of such a category ranks ahead of every eligible
\* non_perishable order and ties with perishable orders, the tie going to the
\* smaller timestamp and then to the earlier backlog position.
C16_UnknownCategoryFirst ==
    NextReturned =>
        \A a \in EligibleBefore :
            /\ UnknownCategory(pre_orders[a].category) => Picked.category # "non_perishable"
            /\ ( /\ UnknownCategory(pre_orders[a].category) \/ UnknownCategory(Picked.category)
                 /\ pre_orders[a].category # "non_perishable"
                 /\ Picked.category # "non_perishable" ) =>
                    /\ Picked.timestamp <= pre_orders[a].timestamp
                    /\ pre_orders[a].timestamp = Picked.timestamp => last.ret <= a

\* an order of category "Perishable" was picked over an eligible
\* non_perishable order of earlier timestamp submitted before it
C16_Witness ==
    /\ NextReturned
    /\ Picked.category = "Perishable"
    /\ \E a \in EligibleBefore :
          /\ a < last.ret
          /\ pre_orders[a].category = "non_perishable"
          /\ pre_orders[a].timestamp < Picked.timestamp

\* C17: picked orders stay in the backlog, so an order already returned is
\* returned again: after a pick of quantity >= 0 whose item still has the
\* stock for it, the order is still at its position and the next next_order
\* call returns that same backlog entry.
C17_PickedAgain ==
    (NextReturned /\ Picked.quantity >= 0
        /\ Picked.quantity <= StockOf(inventory, Picked.item)) =>
        /\ last.ret \in 1..Len(orders)
        /\ orders[last.ret] = Picked
        /\ NextOutcome(orders, inventory).exc = "none"
        /\ NextOutcome(orders, inventory).ret = last.ret

\* the only order the backlog ever held, of quantity 1, has been debited twice
C17_Witness ==
    /\ NextReturned
    /\ Len(orders) = 1
    /\ Picked.quantity = 1
    /\ inventory[Picked.item] = InitialInventory[Picked.item] - 2

\* no backlog order has sufficient stock now
NoOrderEligible ==
    \A i \in 1..Len(orders) : orders[i].quantity > StockOf(inventory, orders[i].item)

\* the stock of all items together
RECURSIVE TotalStock(_, _)
TotalStock(inv, items) ==
    IF items = {} THEN 0
    ELSE LET i == CHOOSE x \in items : TRUE IN inv[i] + TotalStock(inv, items \ {i})

\* C18: with a non-negative inventory, a backlog of orders of quantity >= 1
\* and no further submissions, repeated next_order calls reach a state in
\* which no order is eligible and stay there; every successful pick lowers
\* the total stock, and no item is ever debited beyond its initial stock.
C18_PicksRunOut ==
    /\ <>[]NoOrderEligible
    /\ [][(last'.op = "next_order" /\ last'.exc = "none") =>
            TotalStock(inventory', DOMAIN inventory') < TotalStock(inventory, DOMAIN inventory)]_vars
    /\ [](\A i \in DOMAIN inventory : 0 <= inventory[i] /\ inventory[i] <= InitialInventory[i])

\* picks were made until the call found no order eligible
C18_Witness ==
    /\ last.op = "next_order"
    /\ last.exc = "IndexError"
    /\ Len(orders) >= 1
    /\ inventory # InitialInventory
    /\ NoOrderEligible

====
